---------------------------- MODULE Spec2Model ----------------------------
(***************************************************************************)
(* Model of the event-spark-map hotspot widget.                            *)
(*                                                                         *)
(*   src/src/hooks/useHotspots.ts       the Firestore/geohash hook         *)
(*   src/src/components/HotspotMap.tsx  the Realtime-Database component    *)
(*   src/unnamed/part_000, part_001     two variants of lib/firebase       *)
(*                                                                         *)
(* Coordinates are integers in units of 0.001 degree, so the grid sizes    *)
(* 0.002, 0.005 and 0.01 are 2, 5 and 10.  Times are integer milliseconds. *)
(***************************************************************************)
EXTENDS Integers, Sequences, FiniteSets, TLC

VARIABLES
    \* ---- pure aggregation harness (SpecAgg)
    aggPoints,      \* the input sequence of points
    aggZoom,        \* the zoom of the next call
    aggOut,         \* zoom -> result of aggregateToHotspots, for the zooms called so far
    \* ---- hotspot layer rendering (SpecRender)
    rHotspots,      \* the hotspots state handed to the layer effect
    rLayer,         \* the circle markers on the layer group
    \* ---- useHotspots (SpecHook)
    hFirebase,      \* what lib/firebase exported: [db, initError]
    hDocs,          \* the events collection: doc id -> [lat, lng, ts, ranges]
    hNow,           \* the wall clock, ms
    hCycles,        \* slot -> one call of fetchEvents and where it stands
    hSeenIds,       \* seenIds.current
    hHotspots,      \* useState: hotspots
    hLastUpdated,   \* useState: lastUpdated, <<>> for null, <<t>> for a Date
    hIsLoading,     \* useState: isLoading
    hError,         \* useState: error
    hTimeFilter,    \* useState: timeFilter
    hShown,         \* the call that set hotspots last: its events, bounds, window
    \* ---- HotspotMap (SpecMap)
    mFirebase,      \* what lib/firebase exported: [rtdb, initError]
    mMounted,       \* the component is mounted
    mMapRef,        \* mapRef.current is a map
    mZoom,          \* the map's zoom
    mSaved,         \* localStorage "mapView": <<>> or <<zoom>>
    mTimers,        \* pending setTimeout timers: [id, kind, left, filter]
    mDebounce,      \* debounceTimeout of the current map effect: 0 for null, or a timer id
    mPoll,          \* the setInterval: <<>> or <<filter of its fetchEvents>>
    mCycles,        \* slot -> a call of fetchEvents awaiting get()
    mHotspots,      \* useState: hotspots
    mLastUpdated,   \* useState: lastUpdated, <<>> for null
    mTimeFilter,    \* useState: timeFilter
    mIsLoading,     \* useState: isLoading
    mError,         \* useState: error
    mLayer,         \* the circle markers on hotspotsLayerRef.current
    mSourceUp,      \* the Realtime Database answers reads
    mSinceMove,     \* ms since the last moveend/zoomend, counted up to DebounceMs
    mBurst,         \* view-changed events not yet answered by a debounced fetch
    mLastDone       \* the call that set hotspots last: its zoom, filter, batch

aggVars == <<aggPoints, aggZoom, aggOut>>
renderVars == <<rHotspots, rLayer>>
hookVars == <<hFirebase, hDocs, hNow, hCycles, hSeenIds, hHotspots, hLastUpdated,
              hIsLoading, hError, hTimeFilter, hShown>>
mapVars == <<mFirebase, mMounted, mMapRef, mZoom, mSaved, mTimers, mDebounce,
             mPoll, mCycles, mHotspots, mLastUpdated, mTimeFilter, mIsLoading,
             mError, mLayer, mSourceUp, mSinceMove, mBurst, mLastDone>>
vars == <<aggVars, renderVars, hookVars, mapVars>>

Null == "null"

-----------------------------------------------------------------------------
(* Bounds of the model *)

MaxPoints == 3
MaxCount == 33
MaxShown == 2
MaxCycles == 2
NumDocs == 2
NumRanges == 2
MaxBurst == 3
MaxBatch == 2
MaxTimers == 2

-----------------------------------------------------------------------------
(* Arithmetic helpers *)

Abs(x) == IF x < 0 THEN -x ELSE x

RECURSIVE GCD(_, _)
GCD(a, b) == IF b = 0 THEN a ELSE GCD(b, a % b)

\* The quotient a / b of the code's floating-point division, kept exact as a
\* reduced fraction (b > 0).
Quot(a, b) ==
    LET g == GCD(Abs(a), b)
    IN  [n |-> a \div g, d |-> b \div g]

RECURSIVE SumOver(_, _)
SumOver(S, f) ==
    IF S = {} THEN 0
    ELSE LET x == CHOOSE y \in S : TRUE
         IN  f[x] + SumOver(S \ {x}, f)

-----------------------------------------------------------------------------
(* getGridSize, aggregateToHotspots *)

getGridSize_Inverted(zoom) ==
    IF zoom >= 15 THEN 10
    ELSE IF zoom >= 12 THEN 5
    ELSE 2

getGridSize(zoom) ==
    IF zoom >= 15 THEN 2
    ELSE IF zoom >= 12 THEN 5
    ELSE 10

\* Math.floor(v / gridSize)
CellIndex(v, gridSize) == v \div gridSize

\* `${cellX},${cellY}`
CellKey(p, gridSize) == <<CellIndex(p.lng, gridSize), CellIndex(p.lat, gridSize)>>

\* One iteration of the loop over the points: cells is the Map, kept as the
\* sequence of its entries in insertion order.
AddPoint_DropRepeat(cells, p, gridSize) ==
    LET key == CellKey(p, gridSize)
        hit == {i \in DOMAIN cells : cells[i].key = key}
    IN  IF hit # {}
        THEN cells
        ELSE Append(cells, [key |-> key, totalLat |-> p.lat,
                            totalLng |-> p.lng, count |-> 1])

AddPoint(cells, p, gridSize) ==
    LET key == CellKey(p, gridSize)
        hit == {i \in DOMAIN cells : cells[i].key = key}
    IN  IF hit # {}
        THEN LET i == CHOOSE j \in hit : TRUE
             IN  [cells EXCEPT ![i] = [key      |-> key,
                                       totalLat |-> @.totalLat + p.lat,
                                       totalLng |-> @.totalLng + p.lng,
                                       count    |-> @.count + 1]]
        ELSE Append(cells, [key |-> key, totalLat |-> p.lat,
                            totalLng |-> p.lng, count |-> 1])

RECURSIVE FoldPoints(_, _, _, _)
FoldPoints(cells, points, i, gridSize) ==
    IF i > Len(points) THEN cells
    ELSE FoldPoints(AddPoint(cells, points[i], gridSize), points, i + 1, gridSize)

aggregateToHotspots(points, zoom) ==
    LET gridSize == getGridSize(zoom)
        cells == FoldPoints(<<>>, points, 1, gridSize)
    IN  [i \in DOMAIN cells |->
            [lat   |-> Quot(cells[i].totalLat, cells[i].count),
             lng   |-> Quot(cells[i].totalLng, cells[i].count),
             count |-> cells[i].count]]

-----------------------------------------------------------------------------
(* getHotspotColor, the legend and the layer effect *)

getHotspotColor_OffByOne(count) ==
    IF count > 31 THEN "#ef4444"
    ELSE IF count > 11 THEN "#f97316"
    ELSE IF count > 4 THEN "#eab308"
    ELSE "#22c55e"

getHotspotColor(count) ==
    IF count >= 31 THEN "#ef4444"
    ELSE IF count >= 11 THEN "#f97316"
    ELSE IF count >= 4 THEN "#eab308"
    ELSE "#22c55e"

\* The legend rows of the panel: swatch class and the range of its label;
\* hi = 0 stands for the open range "31+".
Legend ==
    << [swatch |-> "bg-green-500",  lo |-> 1,  hi |-> 3],
       [swatch |-> "bg-yellow-500", lo |-> 4,  hi |-> 10],
       [swatch |-> "bg-orange-500", lo |-> 11, hi |-> 30],
       [swatch |-> "bg-red-500",    lo |-> 31, hi |-> 0] >>

\* The colour a swatch class paints (the default palette of the style sheet).
SwatchColor(class) ==
    CASE class = "bg-green-500"  -> "#22c55e"
      [] class = "bg-yellow-500" -> "#eab308"
      [] class = "bg-orange-500" -> "#f97316"
      [] class = "bg-red-500"    -> "#ef4444"

\* The "Update hotspots layer" effect: clearLayers, then one circle marker
\* per hotspot.
UpdateHotspotsLayer(hs) ==
    [i \in DOMAIN hs |->
        [lat       |-> hs[i].lat,
         lng       |-> hs[i].lng,
         fillColor |-> getHotspotColor(hs[i].count),
         color     |-> getHotspotColor(hs[i].count),
         popup     |-> hs[i].count]]

-----------------------------------------------------------------------------
(* SpecAgg: aggregateToHotspots applied to bounded inputs *)

LatSet == {-1, 4, 5}
LngSet == {1, 5}
PointSet == [lat : LatSet, lng : LngSet]
ZoomSet == {11, 12, 14, 15}

SeqsUpTo(S, n) == UNION {[1..k -> S] : k \in 0..n}

AggIdle ==
    /\ aggPoints = <<>>
    /\ aggZoom = 0
    /\ aggOut = <<>>

RenderIdle ==
    /\ rHotspots = <<>>
    /\ rLayer = <<>>

HookIdle ==
    /\ hFirebase = Null
    /\ hDocs = <<>>
    /\ hNow = 0
    /\ hCycles = <<>>
    /\ hSeenIds = {}
    /\ hHotspots = <<>>
    /\ hLastUpdated = <<>>
    /\ hIsLoading = FALSE
    /\ hError = Null
    /\ hTimeFilter = "today"
    /\ hShown = <<>>

MapIdle ==
    /\ mFirebase = Null
    /\ mMounted = FALSE
    /\ mMapRef = FALSE
    /\ mZoom = 0
    /\ mSaved = <<>>
    /\ mTimers = {}
    /\ mDebounce = 0
    /\ mPoll = <<>>
    /\ mCycles = <<>>
    /\ mHotspots = <<>>
    /\ mLastUpdated = <<>>
    /\ mTimeFilter = "today"
    /\ mIsLoading = FALSE
    /\ mError = Null
    /\ mLayer = <<>>
    /\ mSourceUp = TRUE
    /\ mSinceMove = 0
    /\ mBurst = 0
    /\ mLastDone = <<>>

InitAgg ==
    /\ aggPoints \in SeqsUpTo(PointSet, MaxPoints)
    /\ aggZoom \in ZoomSet
    /\ aggOut = <<>>
    /\ RenderIdle
    /\ HookIdle
    /\ MapIdle

\* The map is zoomed: the next aggregation runs at zoom z.
AggSetZoom(z) ==
    /\ z # aggZoom
    /\ aggZoom' = z
    /\ UNCHANGED <<aggPoints, aggOut, renderVars, hookVars, mapVars>>

\* A call aggregateToHotspots(points, zoom).
AggCall ==
    /\ aggOut' = [z \in DOMAIN aggOut \cup {aggZoom} |->
                      IF z = aggZoom THEN aggregateToHotspots(aggPoints, aggZoom)
                      ELSE aggOut[z]]
    /\ UNCHANGED <<aggPoints, aggZoom, renderVars, hookVars, mapVars>>

NextAgg ==
    \/ \E z \in ZoomSet : AggSetZoom(z)
    \/ AggCall

SpecAgg == InitAgg /\ [][NextAgg]_vars

-----------------------------------------------------------------------------
(* SpecRender: the hotspots layer effect applied to bounded hotspot lists *)

DEMO_POINT == [lat |-> 21492, lng |-> 39242]

ShownSet ==
    [lat : {Quot(DEMO_POINT.lat, 1)}, lng : {Quot(DEMO_POINT.lng, 1)},
     count : 1..MaxCount]

InitRender ==
    /\ rHotspots \in SeqsUpTo(ShownSet, MaxShown)
    /\ rLayer = <<>>
    /\ AggIdle
    /\ HookIdle
    /\ MapIdle

\* useEffect(..., [hotspots]): redraw the layer from the hotspots state.
RenderLayer ==
    /\ rLayer' = UpdateHotspotsLayer(rHotspots)
    /\ UNCHANGED <<rHotspots, aggVars, hookVars, mapVars>>

NextRender == RenderLayer

SpecRender == InitRender /\ [][NextRender]_vars

-----------------------------------------------------------------------------
(* useHotspots: the Firestore hook *)

HourMs == 60 * 60 * 1000
DayMs == 24 * HourMs

\* What the two variants of lib/firebase can export.
FirebaseModules ==
    { [db |-> TRUE,  initError |-> Null],
      [db |-> FALSE, initError |-> "Firebase config not set. Edit src/lib/firebase.ts with your config."],
      [db |-> FALSE, initError |-> "Failed to initialize Firebase"] }

Num(v) == [k |-> "num", v |-> v]
Undefined == [k |-> "undefined"]
Timestamp(ms) == [k |-> "Timestamp", ms |-> ms]
NotATimestamp == [k |-> "other"]

\* ts.toDate()
toDate(ts) == ts.ms

isInsideBounds_Exclusive(lat, lng, bounds) ==
    /\ lat.k = "num" /\ lng.k = "num"
    /\ lat.v > bounds.south /\ lat.v < bounds.north
    /\ lng.v > bounds.west /\ lng.v < bounds.east

\* A comparison with undefined is false.
isInsideBounds(lat, lng, bounds) ==
    /\ lat.k = "num" /\ lng.k = "num"
    /\ lat.v >= bounds.south /\ lat.v <= bounds.north
    /\ lng.v >= bounds.west /\ lng.v <= bounds.east

\* new Date(y, m, d, 0, 0, 0) for today, now - 60 * 60 * 1000 for hour.
StartTime(timeFilter, now) ==
    IF timeFilter = "today" THEN now - (now % DayMs)
    ELSE now - 60 * 60 * 1000

Ranges == 1..NumRanges
DocIds == 1..NumDocs
Slots == 1..MaxCycles

NoBounds == [north |-> 0, south |-> 0, east |-> 0, west |-> 0]

IdleCycle ==
    [pc |-> "idle", bounds |-> NoBounds, zoom |-> 0, filter |-> "today",
     now |-> 0, startTime |-> 0, range |-> 0, allEvents |-> <<>>,
     examined |-> {}, returned |-> {}]

RECURSIVE SortedSeq(_)
SortedSeq(S) ==
    IF S = {} THEN <<>>
    ELSE LET m == CHOOSE x \in S : \A y \in S : x <= y
         IN  <<m>> \o SortedSeq(S \ {m})

\* snapshot.docs of the query over range r (ordered by geohash, here by id).
SnapshotDocs(r) == SortedSeq({id \in DOMAIN hDocs : r \in hDocs[id].ranges})

ProcessDoc(st, id, c) ==
    IF id \in st.seen THEN st
    ELSE
    LET st1 == [st EXCEPT !.seen = @ \cup {id}, !.examined = @ \cup {id}]
        data == hDocs[id]
    IN  IF data.ts.k = "undefined" THEN st1
        ELSE IF data.ts.k # "Timestamp" THEN [st1 EXCEPT !.threw = TRUE]
        ELSE IF toDate(data.ts) < c.startTime THEN st1
        ELSE IF ~isInsideBounds(data.lat, data.lng, c.bounds) THEN st1
        ELSE [st1 EXCEPT !.all = Append(@, [id |-> id, lat |-> data.lat.v,
                                             lng |-> data.lng.v, ts |-> data.ts])]

RECURSIVE ProcessDocs(_, _, _, _)
ProcessDocs(st, docs, i, c) ==
    IF i > Len(docs) \/ st.threw THEN st
    ELSE ProcessDocs(ProcessDoc(st, docs[i], c), docs, i + 1, c)

HookFree(c) == hCycles[c].pc # "await"

\* fetchEvents with db null: setError and return.
HookFetchNoDb ==
    /\ ~hFirebase.db
    /\ hError' = (IF hFirebase.initError # Null THEN hFirebase.initError
                  ELSE "Firebase not initialized")
    /\ UNCHANGED <<hFirebase, hDocs, hNow, hCycles, hSeenIds, hHotspots,
                   hLastUpdated, hIsLoading, hTimeFilter, hShown>>
    /\ UNCHANGED <<aggVars, renderVars, mapVars>>

\* fetchEvents(bounds, zoom) up to its first await: setIsLoading(true), the
\* start of the time window, seenIds.clear(), the first range query.
HookFetchStart(c, bounds, zoom) ==
    /\ hFirebase.db
    /\ HookFree(c)
    /\ \A d \in Slots : d < c => ~HookFree(d)
    /\ hIsLoading' = TRUE
    /\ hSeenIds' = {}
    /\ hCycles' = [hCycles EXCEPT ![c] =
          [pc |-> "await", bounds |-> bounds, zoom |-> zoom,
           filter |-> hTimeFilter, now |-> hNow,
           startTime |-> StartTime(hTimeFilter, hNow), range |-> 1,
           allEvents |-> <<>>, examined |-> {}, returned |-> {}]]
    /\ UNCHANGED <<hFirebase, hDocs, hNow, hHotspots, hLastUpdated, hError,
                   hTimeFilter, hShown>>
    /\ UNCHANGED <<aggVars, renderVars, mapVars>>

\* await getDocs(q) resolves: the loop over snapshot.docs, then either the
\* next range query or the aggregation and the state updates.
HookSnapshot(c) ==
    /\ hCycles[c].pc = "await"
    /\ LET cy == hCycles[c]
           docs == SnapshotDocs(cy.range)
           st == ProcessDocs([seen |-> hSeenIds, all |-> cy.allEvents,
                              examined |-> cy.examined, threw |-> FALSE],
                             docs, 1, cy)
           cy1 == [cy EXCEPT !.allEvents = st.all, !.examined = st.examined,
                             !.returned = @ \cup {docs[i] : i \in DOMAIN docs}]
       IN  /\ hSeenIds' = st.seen
           /\ IF st.threw
              THEN /\ hCycles' = [hCycles EXCEPT ![c] = IdleCycle]
                   /\ hError' = "ts.toDate is not a function"
                   /\ hIsLoading' = FALSE
                   /\ UNCHANGED <<hHotspots, hLastUpdated, hShown>>
              ELSE IF cy.range < NumRanges
              THEN /\ hCycles' = [hCycles EXCEPT ![c] = [cy1 EXCEPT !.range = @ + 1]]
                   /\ UNCHANGED <<hHotspots, hLastUpdated, hError, hIsLoading, hShown>>
              ELSE /\ hCycles' = [hCycles EXCEPT ![c] = IdleCycle]
                   /\ hHotspots' = aggregateToHotspots(st.all, cy.zoom)
                   /\ hLastUpdated' = <<hNow>>
                   /\ hError' = Null
                   /\ hIsLoading' = FALSE
                   /\ hShown' = <<[events |-> st.all, bounds |-> cy.bounds,
                                   filter |-> cy.filter, now |-> cy.now,
                                   examined |-> st.examined,
                                   returned |-> cy1.returned]>>
    /\ UNCHANGED <<hFirebase, hDocs, hNow, hTimeFilter>>
    /\ UNCHANGED <<aggVars, renderVars, mapVars>>

\* await getDocs(q) rejects: catch and finally.
HookReject(c) ==
    /\ hCycles[c].pc = "await"
    /\ hCycles' = [hCycles EXCEPT ![c] = IdleCycle]
    /\ hError' = "Failed to get documents"
    /\ hIsLoading' = FALSE
    /\ UNCHANGED <<hFirebase, hDocs, hNow, hSeenIds, hHotspots, hLastUpdated,
                   hTimeFilter, hShown>>
    /\ UNCHANGED <<aggVars, renderVars, mapVars>>

\* setTimeFilter
HookSetTimeFilter(f) ==
    /\ f # hTimeFilter
    /\ hTimeFilter' = f
    /\ UNCHANGED <<hFirebase, hDocs, hNow, hCycles, hSeenIds, hHotspots,
                   hLastUpdated, hIsLoading, hError, hShown>>
    /\ UNCHANGED <<aggVars, renderVars, mapVars>>

-----------------------------------------------------------------------------
(* SpecHook: overlapping calls of useHotspots.fetchEvents *)

Viewport == [north |-> 10, south |-> 0, east |-> 10, west |-> 0]
HookBounds == {Viewport, [Viewport EXCEPT !.north = 5]}
HookZooms == {13}
NowSet == {DayMs + 30 * 60 * 1000, DayMs + 2 * HourMs}

LatVals == {Num(-1), Num(0), Num(10), Num(11), Undefined}
LngVals == {Num(-1), Num(0), Num(10), Num(11), Undefined}
TsVals ==
    {Timestamp(DayMs - 30 * 60 * 1000 - 1), Timestamp(DayMs - 30 * 60 * 1000),
     Timestamp(DayMs - 1), Timestamp(DayMs),
     Timestamp(DayMs + HourMs - 1), Timestamp(DayMs + HourMs),
     Undefined, NotATimestamp}

Nominal == [lat |-> Num(5), lng |-> Num(5), ts |-> Timestamp(DayMs + HourMs)]

\* Document contents: the nominal event with one field varied.
DocContents ==
    {[Nominal EXCEPT !.lat = v] : v \in LatVals}
    \cup {[Nominal EXCEPT !.lng = v] : v \in LngVals}
    \cup {[Nominal EXCEPT !.ts = v] : v \in TsVals}
    \cup {Nominal}

DocWith(content, ranges) ==
    [lat |-> content.lat, lng |-> content.lng, ts |-> content.ts, ranges |-> ranges]

InitHook ==
    /\ hFirebase \in FirebaseModules
    /\ \E content \in DocContents, first \in {{1}, Ranges} :
          hDocs = [i \in DocIds |->
                      IF i = 1 THEN DocWith(content, first)
                      ELSE DocWith(Nominal, {((i - 1) % NumRanges) + 1})]
    /\ hNow \in NowSet
    /\ hCycles = [c \in Slots |-> IdleCycle]
    /\ hSeenIds = {}
    /\ hHotspots = <<>>
    /\ hLastUpdated = <<>>
    /\ hIsLoading = FALSE
    /\ hError = hFirebase.initError
    /\ hTimeFilter = "today"
    /\ hShown = <<>>
    /\ AggIdle
    /\ RenderIdle
    /\ MapIdle

NextHook ==
    \/ HookFetchNoDb
    \/ \E c \in Slots, b \in HookBounds, z \in HookZooms : HookFetchStart(c, b, z)
    \/ \E c \in Slots : HookSnapshot(c)
    \/ \E c \in Slots : HookReject(c)
    \/ \E f \in {"today", "hour"} : HookSetTimeFilter(f)

SpecHook == InitHook /\ [][NextHook]_vars

-----------------------------------------------------------------------------
(* HotspotMap: the Realtime-Database component *)

DebounceMs == 250
InitFetchMs == 100

\* Timers are counted down in steps that divide both delays.
TickMs == GCD(DebounceMs, InitFetchMs)

\* The wall clock of the component's fetches, ms.
MapNow == DayMs + 2 * HourMs

\* What lib/firebase can hand the component: part_000 exports rtdb, part_001
\* does not (rtdb is then undefined).
MapFirebaseModules ==
    { [rtdb |-> TRUE,  initError |-> Null],
      [rtdb |-> FALSE, initError |-> Null],
      [rtdb |-> FALSE, initError |-> "Firebase config not set. Edit src/lib/firebase.ts with your config."] }

NaNValue == [k |-> "nan"]
\* A string with what new Date(s) makes of it once " " is replaced by "T".
Str(form, date) == [k |-> "str", form |-> form, date |-> date]

\* a % b of the code, for b > 0
JsRem(a, b) == IF a >= 0 THEN a % b ELSE 0 - ((0 - a) % b)

Max(a, b) == IF a >= b THEN a ELSE b
Min(a, b) == IF a <= b THEN a ELSE b

normalizeLng(lng) == JsRem(JsRem(lng + 180000, 360000) + 360000, 360000) - 180000
clampLat(lat) == Max(0 - 90000, Min(90000, lat))
fixCoords(lat, lng) == [lat |-> clampLat(lat), lng |-> normalizeLng(lng)]

\* <<>> for null, <<ms>> for a Date
parseTimeToDate(value) ==
    IF value.k = "num" THEN <<value.v>>
    ELSE IF value.k # "str" THEN <<>>
    ELSE IF value.date.k = "nan" THEN <<>>
    ELSE <<value.date.v>>

\* a || b on Date-or-null
OrElse(a, b) == IF a # <<>> THEN a ELSE b

\* Number(data.lat), Number(data.lng ?? data.lon) are finite
HasCoords(data) ==
    /\ data.lat.k = "num"
    /\ (IF data.lng.k # "undefined" THEN data.lng.k = "num" ELSE data.lon.k = "num")

PointsOfRecord(data, startTime) ==
    LET eventDate == OrElse(parseTimeToDate(data.ts), parseTimeToDate(data.time))
    IN  IF eventDate = <<>> \/ eventDate[1] < startTime THEN <<>>
        ELSE <<fixCoords(DEMO_POINT.lat, DEMO_POINT.lng)>>

RECURSIVE PointsOfVal(_, _, _)
PointsOfVal(val, i, startTime) ==
    IF i > Len(val) THEN <<>>
    ELSE PointsOfRecord(val[i], startTime) \o PointsOfVal(val, i + 1, startTime)

MapIdleCycle ==
    [pc |-> "idle", zoom |-> 0, filter |-> "today", overtaken |-> FALSE, after |-> {}]

MapInFlight == {c \in DOMAIN mCycles : mCycles[c].pc = "await"}

MapFreeSlot == CHOOSE c \in Slots : c \notin MapInFlight /\ \A d \in Slots : d < c => d \in MapInFlight

\* A timer id setTimeout has not handed out among the ids still held.
FreshTimerId(timers, held) ==
    CHOOSE i \in 1..(Cardinality(timers) + 2) :
        i # held /\ \A t \in timers : t.id # i

\* fetchEvents of the render whose timeFilter is filter, up to its await:
\* what it does to the cycles, isLoading and error.  hasMap and zoom are
\* mapRef.current at the time of the call.
FetchEvents(filter, hasMap, zoom) ==
    IF ~hasMap
    THEN UNCHANGED <<mCycles, mIsLoading, mError>>
    ELSE IF ~mFirebase.rtdb
    THEN /\ mError' = (IF mFirebase.initError # Null THEN mFirebase.initError
                       ELSE "Firebase RTDB not initialized")
         /\ UNCHANGED <<mCycles, mIsLoading>>
    ELSE /\ MapInFlight # Slots
         /\ mIsLoading' = TRUE
         /\ mCycles' = [mCycles EXCEPT ![MapFreeSlot] =
               [pc |-> "await", zoom |-> zoom, filter |-> filter,
                overtaken |-> FALSE, after |-> MapInFlight]]
         /\ UNCHANGED mError

HookUntouched == UNCHANGED <<aggVars, renderVars, hookVars>>

\* handleMapMove: a moveend or zoomend of the map, now at zoom z.
handleMapMove_NoClear(z) ==
    /\ mMapRef
    /\ mZoom' = z
    /\ mSaved' = <<z>>
    /\ LET id == FreshTimerId(mTimers, mDebounce)
       IN  /\ mTimers' = mTimers \cup
                  {[id |-> id, kind |-> "debounce", left |-> DebounceMs, filter |-> mTimeFilter]}
           /\ mDebounce' = id
    /\ mSinceMove' = 0
    /\ mBurst' = Min(mBurst + 1, MaxBurst)
    /\ UNCHANGED <<mFirebase, mMounted, mMapRef, mPoll, mCycles, mHotspots,
                   mLastUpdated, mTimeFilter, mIsLoading, mError, mLayer,
                   mSourceUp, mLastDone>>
    /\ HookUntouched

handleMapMove(z) ==
    /\ mMapRef
    /\ mZoom' = z
    /\ mSaved' = <<z>>
    /\ LET kept == {t \in mTimers : t.id # mDebounce}
           id == FreshTimerId(kept, 0)
       IN  /\ mTimers' = kept \cup
                  {[id |-> id, kind |-> "debounce", left |-> DebounceMs, filter |-> mTimeFilter]}
           /\ mDebounce' = id
    /\ mSinceMove' = 0
    /\ mBurst' = Min(mBurst + 1, MaxBurst)
    /\ UNCHANGED <<mFirebase, mMounted, mMapRef, mPoll, mCycles, mHotspots,
                   mLastUpdated, mTimeFilter, mIsLoading, mError, mLayer,
                   mSourceUp, mLastDone>>
    /\ HookUntouched

\* A setTimeout timer comes due and calls its fetchEvents.
MapTimerFire(t) ==
    /\ t \in mTimers
    /\ t.left = 0
    /\ mTimers' = mTimers \ {t}
    /\ FetchEvents(t.filter, mMapRef, mZoom)
    /\ IF t.kind = "debounce"
       THEN mBurst' = 0 /\ mSinceMove' = 0
       ELSE UNCHANGED <<mBurst, mSinceMove>>
    /\ UNCHANGED <<mFirebase, mMounted, mMapRef, mZoom, mSaved, mDebounce, mPoll,
                   mHotspots, mLastUpdated, mTimeFilter, mLayer, mSourceUp,
                   mLastDone>>
    /\ HookUntouched

\* The setInterval callback runs.  The interval is 8000 ms; its phase
\* against everything else is left open.
MapPollFire ==
    /\ mPoll # <<>>
    /\ FetchEvents(mPoll[1], mMapRef, mZoom)
    /\ UNCHANGED <<mFirebase, mMounted, mMapRef, mZoom, mSaved, mTimers, mDebounce,
                   mPoll, mHotspots, mLastUpdated, mTimeFilter, mLayer, mSourceUp,
                   mSinceMove, mBurst, mLastDone>>
    /\ HookUntouched

\* Time passes by one step; no timer is overdue.
MapTick ==
    /\ \A t \in mTimers : t.left > 0
    /\ mTimers # {}
    /\ mTimers' = {[t EXCEPT !.left = Max(0, @ - TickMs)] : t \in mTimers}
    /\ mSinceMove' = (IF mBurst > 0 THEN Min(DebounceMs, mSinceMove + TickMs) ELSE 0)
    /\ UNCHANGED <<mFirebase, mMounted, mMapRef, mZoom, mSaved, mDebounce, mPoll,
                   mCycles, mHotspots, mLastUpdated, mTimeFilter, mIsLoading,
                   mError, mLayer, mSourceUp, mBurst, mLastDone>>
    /\ HookUntouched

DefaultZoom == 12

\* map.remove(), then L.map(...) at the saved view or the default one.
RestoredZoom == IF mSaved # <<>> THEN mSaved[1] ELSE DefaultZoom

\* A click on Today / Last Hour that changes timeFilter.  fetchEvents gets a
\* new identity, so in the same commit: the map effect's cleanup (clear the
\* debounce timer, remove the map), the interval's cleanup, then the map
\* effect again (a new map and layer group, setTimeout(fetchEvents, 100)),
\* a new interval, and the time-filter effect's direct fetchEvents().
MapSetTimeFilter(f) ==
    /\ mMounted
    /\ f # mTimeFilter
    /\ Cardinality(mTimers) < MaxTimers
    /\ mTimeFilter' = f
    /\ LET kept == {t \in mTimers : t.id # mDebounce}
           id == FreshTimerId(kept, 0)
       IN  mTimers' = kept \cup
               {[id |-> id, kind |-> "init", left |-> InitFetchMs, filter |-> f]}
    /\ mDebounce' = 0
    /\ mMapRef' = TRUE
    /\ mZoom' = RestoredZoom
    /\ mLayer' = <<>>
    /\ mPoll' = <<f>>
    /\ FetchEvents(f, TRUE, RestoredZoom)
    /\ mBurst' = 0
    /\ mSinceMove' = 0
    /\ UNCHANGED <<mFirebase, mMounted, mSaved, mHotspots, mLastUpdated,
                   mSourceUp, mLastDone>>
    /\ HookUntouched

\* The component unmounts: both cleanups.
MapUnmount ==
    /\ mMounted
    /\ mMounted' = FALSE
    /\ mTimers' = {t \in mTimers : t.id # mDebounce}
    /\ mMapRef' = FALSE
    /\ mLayer' = <<>>
    /\ mPoll' = <<>>
    /\ mBurst' = 0
    /\ mSinceMove' = 0
    /\ UNCHANGED <<mFirebase, mZoom, mSaved, mDebounce, mCycles, mHotspots,
                   mLastUpdated, mTimeFilter, mIsLoading, mError, mSourceUp,
                   mLastDone>>
    /\ HookUntouched

CyclesAfter_AbortOthers(c, success) ==
    [d \in DOMAIN mCycles |-> MapIdleCycle]

\* The cycles once slot c has finished; a successful finish marks the
\* cycles that were started before c and are still in flight.
CyclesAfter(c, success) ==
    [d \in DOMAIN mCycles |->
        IF d = c THEN MapIdleCycle
        ELSE [mCycles[d] EXCEPT
                 !.overtaken = @ \/ (success /\ mCycles[d].pc = "await"
                                             /\ d \in mCycles[c].after),
                 !.after = @ \ {c}]]

\* await get(ref(rtdb, "events")) resolves with val (<<>> for null): the
\* loop over the records, the aggregation and the state updates; the
\* hotspots effect redraws the layer.
MapFetchResolve(c, val) ==
    /\ c \in MapInFlight
    /\ mSourceUp
    /\ LET cy == mCycles[c]
           points == PointsOfVal(val, 1, StartTime(cy.filter, MapNow))
           aggregated == aggregateToHotspots(points, cy.zoom)
       IN  /\ mHotspots' = aggregated
           /\ mLastUpdated' = <<MapNow>>
           /\ mError' = Null
           /\ mIsLoading' = FALSE
           /\ mLayer' = (IF mMapRef THEN UpdateHotspotsLayer(aggregated) ELSE mLayer)
           /\ mLastDone' = <<[zoom |-> cy.zoom, filter |-> cy.filter, val |-> val,
                              overtaken |-> cy.overtaken]>>
    /\ mCycles' = CyclesAfter(c, TRUE)
    /\ UNCHANGED <<mFirebase, mMounted, mMapRef, mZoom, mSaved, mTimers, mDebounce,
                   mPoll, mTimeFilter, mSourceUp, mSinceMove, mBurst>>
    /\ HookUntouched

MapFetchReject_StopsPolling(c) ==
    /\ c \in MapInFlight
    /\ ~mSourceUp
    /\ mError' = "Error: Client is offline."
    /\ mIsLoading' = FALSE
    /\ mCycles' = CyclesAfter(c, FALSE)
    /\ mPoll' = <<>>
    /\ UNCHANGED <<mFirebase, mMounted, mMapRef, mZoom, mSaved, mTimers, mDebounce,
                   mHotspots, mLastUpdated, mTimeFilter, mLayer, mSourceUp,
                   mSinceMove, mBurst, mLastDone>>
    /\ HookUntouched

\* await get(...) rejects: catch and finally.
MapFetchReject(c) ==
    /\ c \in MapInFlight
    /\ ~mSourceUp
    /\ mError' = "Error: Client is offline."
    /\ mIsLoading' = FALSE
    /\ mCycles' = CyclesAfter(c, FALSE)
    /\ UNCHANGED <<mFirebase, mMounted, mMapRef, mZoom, mSaved, mTimers, mDebounce,
                   mPoll, mHotspots, mLastUpdated, mTimeFilter, mLayer, mSourceUp,
                   mSinceMove, mBurst, mLastDone>>
    /\ HookUntouched

\* The database becomes unreachable, or reachable again.
MapSourceChange ==
    /\ mSourceUp' = ~mSourceUp
    /\ UNCHANGED <<mFirebase, mMounted, mMapRef, mZoom, mSaved, mTimers, mDebounce,
                   mPoll, mCycles, mHotspots, mLastUpdated, mTimeFilter,
                   mIsLoading, mError, mLayer, mSinceMove, mBurst, mLastDone>>
    /\ HookUntouched

-----------------------------------------------------------------------------
(* SpecMap: the mounted component, its triggers and its reads *)

MapZooms == {DefaultZoom}

FreshMs == MapNow - 60 * 1000
EarlierTodayMs == MapNow - HourMs - 1
YesterdayMs == DayMs - 1

NoField == [lat |-> Undefined, lng |-> Undefined, lon |-> Undefined,
            time |-> Undefined, ts |-> Undefined]

\* The records a read can hold: what addTestEvent pushes (lat, lon, time,
\* ts), what a device pushes (lat, lon, time), and malformed ones.
RtdbRecords ==
    { [NoField EXCEPT !.lat = Num(21492), !.lon = Num(39242),
                      !.time = Str("space", Num(FreshMs)), !.ts = Num(FreshMs)],
      [NoField EXCEPT !.lat = Num(21492), !.lon = Num(39242),
                      !.time = Str("space", Num(EarlierTodayMs))],
      [NoField EXCEPT !.lat = Num(21492), !.lng = Num(39242),
                      !.ts = Num(YesterdayMs)],
      [NoField EXCEPT !.lat = Num(21492), !.lon = Num(39242),
                      !.time = Str("garbage", NaNValue)],
      [NoField EXCEPT !.time = Str("iso", Num(FreshMs))],
      [NoField EXCEPT !.lat = NaNValue, !.lon = Num(39242), !.ts = Num(FreshMs)] }

Batches == SeqsUpTo(RtdbRecords, MaxBatch)

FreshRecord ==
    [NoField EXCEPT !.lat = Num(21492), !.lon = Num(39242),
                    !.time = Str("space", Num(FreshMs)), !.ts = Num(FreshMs)]
EarlierRecord ==
    [NoField EXCEPT !.lat = Num(21492), !.lon = Num(39242),
                    !.time = Str("space", Num(EarlierTodayMs))]

\* The reads of the full component: nothing, one fresh event, a fresh one
\* and one from earlier today.
MapBatches == {<<>>, <<FreshRecord>>, <<FreshRecord, EarlierRecord>>}

InitMap ==
    /\ mFirebase \in MapFirebaseModules
    /\ mMounted = TRUE
    /\ mMapRef = TRUE
    /\ mZoom = DefaultZoom
    /\ mSaved = <<>>
    /\ mTimers = {[id |-> 1, kind |-> "init", left |-> InitFetchMs, filter |-> "today"]}
    /\ mDebounce = 0
    /\ mPoll = <<"today">>
    /\ mCycles = [c \in Slots |->
                    IF c = 1 /\ mFirebase.rtdb
                    THEN [pc |-> "await", zoom |-> DefaultZoom, filter |-> "today",
                          overtaken |-> FALSE, after |-> {}]
                    ELSE MapIdleCycle]
    /\ mHotspots = <<>>
    /\ mLastUpdated = <<>>
    /\ mTimeFilter = "today"
    /\ mIsLoading = mFirebase.rtdb
    /\ mError = (IF mFirebase.rtdb \/ mFirebase.initError # Null
                 THEN mFirebase.initError
                 ELSE "Firebase RTDB not initialized")
    /\ mLayer = <<>>
    /\ mSourceUp \in BOOLEAN
    /\ mSinceMove = 0
    /\ mBurst = 0
    /\ mLastDone = <<>>
    /\ AggIdle
    /\ RenderIdle
    /\ HookIdle

NextMap ==
    \/ \E z \in MapZooms : handleMapMove(z)
    \/ \E t \in mTimers : MapTimerFire(t)
    \/ MapPollFire
    \/ MapTick
    \/ \E f \in {"today", "hour"} : MapSetTimeFilter(f)
    \/ MapUnmount
    \/ \E c \in Slots, val \in MapBatches : MapFetchResolve(c, val)
    \/ \E c \in Slots : MapFetchReject(c)
    \/ MapSourceChange

SpecMap == InitMap /\ [][NextMap]_vars

\* SpecBatch: the reads alone, over every batch of up to MaxBatch records.
NextBatch ==
    \/ MapPollFire
    \/ \E c \in Slots, val \in Batches : MapFetchResolve(c, val)

SpecBatch == InitMap /\ [][NextBatch]_vars

\* SpecPoll: the timers, the time filter and the reads with the map left
\* alone and the component mounted.  The interval keeps coming due and a
\* read that can be answered is answered.
NextPoll ==
    \/ \E t \in mTimers : MapTimerFire(t)
    \/ MapPollFire
    \/ MapTick
    \/ \E f \in {"today", "hour"} : MapSetTimeFilter(f)
    \/ \E c \in Slots, val \in MapBatches : MapFetchResolve(c, val)
    \/ \E c \in Slots : MapFetchReject(c)
    \/ MapSourceChange

SpecPoll ==
    /\ InitMap
    /\ [][NextPoll]_vars
    /\ WF_vars(MapPollFire)
    /\ WF_vars(\E c \in Slots, val \in MapBatches : MapFetchResolve(c, val))

-----------------------------------------------------------------------------
(* C1 *)

\* The grid size as the claim states it.
ClaimGrid(z) == IF z >= 15 THEN 2 ELSE IF z >= 12 THEN 5 ELSE 10

ClaimCell(p, g) == <<p.lng \div g, p.lat \div g>>

ClaimCells(points, g) == {ClaimCell(points[i], g) : i \in DOMAIN points}

ClaimMembers(points, g, k) == {i \in DOMAIN points : ClaimCell(points[i], g) = k}

\* out is a correct aggregation of points on a grid of size g.
IsAggregationOf(out, points, g) ==
    /\ Len(out) = Cardinality(ClaimCells(points, g))
    /\ \A k \in ClaimCells(points, g) :
          LET M == ClaimMembers(points, g, k)
              n == Cardinality(M)
          IN  \E i \in DOMAIN out :
                 /\ out[i].count = n
                 /\ out[i].lat = Quot(SumOver(M, [j \in M |-> points[j].lat]), n)
                 /\ out[i].lng = Quot(SumOver(M, [j \in M |-> points[j].lng]), n)
    /\ \A i \in DOMAIN out : out[i].count >= 1
    /\ SumOver(DOMAIN out, [i \in DOMAIN out |-> out[i].count]) = Len(points)

\* C1: aggregateToHotspots returns exactly one hotspot per non-empty grid
\* cell (grid 0.002 for zoom >= 15, 0.005 for zoom >= 12, else 0.01); each
\* hotspot's count is >= 1 and is the number of input points in its cell,
\* its lat/lng are the members' sums divided by the count, and the counts
\* sum to the number of input points (empty input gives an empty result).
C1_OneHotspotPerCell ==
    \A z \in DOMAIN aggOut :
            /\ IsAggregationOf(aggOut[z], aggPoints, ClaimGrid(z))
            /\ (aggPoints = <<>> => aggOut[z] = <<>>)

\* A result with a merged cell (count 2 or more) next to another cell.
C1_Witness ==
    \E z \in DOMAIN aggOut :
        /\ Len(aggOut[z]) >= 2
        /\ \E i \in DOMAIN aggOut[z] : aggOut[z][i].count >= 2

-----------------------------------------------------------------------------
(* C2 *)

Computed(z) == z \in DOMAIN aggOut

\* C2 as stated: for a fixed input the number of hotspots is non-decreasing
\* as zoom increases across the thresholds 12 and 15.
C2_MonotoneAcrossAllThresholds ==
    \A z1, z2 \in DOMAIN aggOut :
        (z1 <= z2 /\ Computed(z1) /\ Computed(z2))
            => Len(aggOut[z1]) <= Len(aggOut[z2])

\* C2 as amended: for a fixed input the number of hotspots at any zoom >= 12
\* (grid 0.005 or 0.002) is at least the number at any zoom < 12 (grid 0.01),
\* and two zooms in the same band give the same number; between the bands
\* 12 <= zoom < 15 and zoom >= 15 the number may go either way.
C2_MonotoneFromCoarsestGrid ==
    \A z1, z2 \in DOMAIN aggOut :
        (z1 <= z2 /\ Computed(z1) /\ Computed(z2)) =>
            /\ (z1 < 12 /\ z2 >= 12) => Len(aggOut[z1]) <= Len(aggOut[z2])
            /\ ClaimGrid(z1) = ClaimGrid(z2) => Len(aggOut[z1]) = Len(aggOut[z2])

\* The same input aggregated below 12 and at or above 12, the finer grid
\* giving strictly more hotspots.
C2_Witness ==
    \E z1, z2 \in DOMAIN aggOut :
        /\ z1 < 12 /\ z2 >= 15 /\ Computed(z1) /\ Computed(z2)
        /\ Computed(12)
        /\ Len(aggOut[z1]) < Len(aggOut[12])
        /\ Len(aggOut[z1]) < Len(aggOut[z2])

-----------------------------------------------------------------------------
(* C3 *)

\* The start of the time window as the claim states it: local midnight of
\* the current date for Today, now minus 3600 seconds for LastHour.
ClaimStart(filter, now) ==
    IF filter = "today" THEN (now \div DayMs) * DayMs ELSE now - 3600 * 1000

ClaimAdmissible(doc, bounds, start) ==
    /\ doc.lat.k = "num" /\ doc.lng.k = "num"
    /\ bounds.south <= doc.lat.v /\ doc.lat.v <= bounds.north
    /\ bounds.west <= doc.lng.v /\ doc.lng.v <= bounds.east
    /\ doc.ts.k = "Timestamp" /\ doc.ts.ms >= start

EventIds(events) == {events[i].id : i \in DOMAIN events}

\* events are exactly the admissible ones among the candidates examined.
PassedIffAdmissible(events, examined, bounds, filter, now) ==
    /\ EventIds(events) =
          {id \in examined :
              ClaimAdmissible(hDocs[id], bounds, ClaimStart(filter, now))}
    /\ \A i \in DOMAIN events :
          /\ hDocs[events[i].id].lat = Num(events[i].lat)
          /\ hDocs[events[i].id].lng = Num(events[i].lng)
          /\ hDocs[events[i].id].ts = events[i].ts

TotalCount(hs) == SumOver(DOMAIN hs, [i \in DOMAIN hs |-> hs[i].count])

\* C3: in a fetch cycle a candidate event examined by the filter is passed
\* to the aggregator iff south <= lat <= north, west <= lng <= east and
\* timestamp >= startInstant (local midnight for Today, now - 3600 s for
\* LastHour); so every event counted in a displayed hotspot lies inside the
\* viewport and the time window of the fetch that produced it.
C3_FilterAdmitsIffInBoundsAndWindow ==
    /\ \A c \in DOMAIN hCycles :
          hCycles[c].pc = "await" =>
              PassedIffAdmissible(hCycles[c].allEvents, hCycles[c].examined,
                                  hCycles[c].bounds, hCycles[c].filter,
                                  hCycles[c].now)
    /\ \A k \in DOMAIN hShown :
          /\ PassedIffAdmissible(hShown[k].events, hShown[k].examined,
                                 hShown[k].bounds, hShown[k].filter, hShown[k].now)
          /\ TotalCount(hHotspots) = Len(hShown[k].events)

\* Displayed hotspots that count an event lying on the viewport's northern
\* edge with a timestamp equal to the start of its window, from a fetch that
\* examined more candidates than it passed on.
C3_Witness ==
    \E k \in DOMAIN hShown :
        /\ \E i \in DOMAIN hShown[k].events :
              /\ hShown[k].events[i].lat = hShown[k].bounds.north
              /\ hShown[k].events[i].ts.ms = ClaimStart(hShown[k].filter, hShown[k].now)
        /\ TotalCount(hHotspots) >= 1
        /\ hShown[k].filter = "hour"

\* A fetch in flight that examined a candidate outside its window or
\* viewport and did not pass it on.
C3_WitnessRejected ==
    \E c \in DOMAIN hCycles :
        /\ hCycles[c].pc = "await"
        /\ EventIds(hCycles[c].allEvents) # hCycles[c].examined

-----------------------------------------------------------------------------
(* C7 *)

Occurrences(events, id) == Cardinality({i \in DOMAIN events : events[i].id = id})

\* C7: within one fetch cycle every admissible document returned by at
\* least one geohash range query is counted exactly once in that cycle's
\* aggregation, for every interleaving of fetch cycles sharing seenIds.
C7_CountedExactlyOnce ==
    \A k \in DOMAIN hShown :
        \A id \in hShown[k].returned :
            ClaimAdmissible(hDocs[id], hShown[k].bounds,
                            ClaimStart(hShown[k].filter, hShown[k].now))
                => /\ Occurrences(hShown[k].events, id) = 1
                   /\ TotalCount(hHotspots) = Len(hShown[k].events)

\* The two ways it fails.
C7_NeverTwice ==
    \A k \in DOMAIN hShown : \A id \in hShown[k].returned :
        Occurrences(hShown[k].events, id) <= 1

C7_NeverZero ==
    \A k \in DOMAIN hShown : \A id \in hShown[k].returned :
        ClaimAdmissible(hDocs[id], hShown[k].bounds,
                        ClaimStart(hShown[k].filter, hShown[k].now))
            => Occurrences(hShown[k].events, id) >= 1

-----------------------------------------------------------------------------
(* C4 *)

\* A step in which a call of fetchEvents fails: the read rejects, or the
\* database is not configured.
MapFetchFails ==
    \/ \E c \in Slots : MapFetchReject(c)
    \/ /\ ~mFirebase.rtdb
       /\ mMapRef
       /\ MapPollFire \/ \E t \in mTimers : MapTimerFire(t)

\* C4: whenever a fetch cycle fails, error becomes a non-null string, the
\* failure is not propagated, and the displayed hotspot set is empty
\* afterwards, also when an earlier cycle had populated it.
C4_FailureEmptiesHotspots ==
    [][MapFetchFails => (mError' # Null /\ mHotspots' = <<>>)]_vars

\* The part of C4 that the code does keep: a failed cycle sets the error
\* string and ends as an ordinary step.
C4_FailureSetsError ==
    [][MapFetchFails => mError' # Null]_vars

-----------------------------------------------------------------------------
(* C5 *)

\* A record is well formed when its latitude and longitude are finite
\* numbers and its timestamp is present and parseable.
ClaimTimeOf(rec) ==
    IF rec.ts.k = "num" THEN <<rec.ts.v>>
    ELSE IF rec.time.k = "str" /\ rec.time.date.k = "num" THEN <<rec.time.date.v>>
    ELSE <<>>

ClaimWellFormed(rec) ==
    /\ rec.lat.k = "num"
    /\ rec.lng.k = "num" \/ rec.lon.k = "num"
    /\ ClaimTimeOf(rec) # <<>>

ClaimCounted(val, filter) ==
    {i \in DOMAIN val :
        /\ ClaimWellFormed(val[i])
        /\ ClaimTimeOf(val[i])[1] >= ClaimStart(filter, MapNow)}

\* C5: a malformed record in a fetched batch is skipped silently: it adds
\* to no hotspot count, the cycle completes with error cleared, and the
\* hotspots are the aggregation of the well-formed admissible records.
C5_MalformedRecordsSkipped ==
    \A k \in DOMAIN mLastDone :
        /\ mError = Null
        /\ TotalCount(mHotspots) =
              Cardinality(ClaimCounted(mLastDone[k].val, mLastDone[k].filter))

\* The part of C5 that the code does keep: a record whose timestamp is
\* missing or unparseable adds to no count and does not fail the batch.
C5_UntimedRecordsSkipped ==
    \A k \in DOMAIN mLastDone :
        /\ mError = Null
        /\ TotalCount(mHotspots) <=
              Cardinality({i \in DOMAIN mLastDone[k].val :
                              ClaimTimeOf(mLastDone[k].val[i]) # <<>>})

-----------------------------------------------------------------------------
(* C8 *)

\* What a read of val under a time filter must display: all its admitted
\* records sit on the demo point, so one hotspot counting them, or nothing.
ClaimDisplayed(val, filter) ==
    LET n == Cardinality({i \in DOMAIN val :
                 /\ ClaimTimeOf(val[i]) # <<>>
                 /\ ClaimTimeOf(val[i])[1] >= ClaimStart(filter, MapNow)})
    IN  IF n = 0 THEN <<>>
        ELSE <<[lat |-> Quot(DEMO_POINT.lat, 1), lng |-> Quot(DEMO_POINT.lng, 1),
                count |-> n]>>

\* A cycle leaves the set of cycles in flight only by its own completion.
NotCancelled ==
    \A c \in Slots :
        (c \in MapInFlight /\ mCycles'[c].pc # "await")
            => \/ \E val \in MapBatches : MapFetchResolve(c, val)
               \/ MapFetchReject(c)

\* C8: fetch cycles are neither mutually excluded nor cancelled; each
\* successful one replaces the displayed hotspot set wholesale with its own
\* aggregation, so the displayed set is always the result of the cycle that
\* completed (successfully) last, whichever order they were started in.
C8_LastWriteWins ==
    /\ [](/\ \A k \in DOMAIN mLastDone :
                mHotspots = ClaimDisplayed(mLastDone[k].val, mLastDone[k].filter)
          /\ mLastDone = <<>> => mHotspots = <<>>)
    /\ [][NotCancelled]_vars

\* No cycle is in flight and the hotspots on display come from a cycle that
\* was overtaken: one started after it had already completed and written.
C8_Witness ==
    /\ MapInFlight = {}
    /\ mMounted
    /\ mHotspots # <<>>
    /\ \E k \in DOMAIN mLastDone : mLastDone[k].overtaken

-----------------------------------------------------------------------------
(* C9 *)

DebounceTimers == {t \in mTimers : t.kind = "debounce"}

\* C9: at every moment at most one debounce timer is pending; it is the one
\* the last moveend/zoomend scheduled, due 250 ms after that event, so a
\* burst of events triggers exactly one fetchEvents call, after its last
\* event; unmounting cancels the pending timer.
C9_TrailingDebounce ==
    /\ Cardinality(DebounceTimers) <= 1
    /\ \A t \in DebounceTimers :
          /\ t.id = mDebounce
          /\ t.left = DebounceMs - mSinceMove
          /\ t.left = 0 => mSinceMove = 250
    /\ (mBurst > 0) <=> (DebounceTimers # {})
    /\ ~mMounted => DebounceTimers = {}

\* A burst of two or more events whose single timer has come due, 250 ms
\* after the last of them.
C9_Witness ==
    /\ mBurst >= 2
    /\ Cardinality(DebounceTimers) = 1
    /\ \E t \in DebounceTimers : t.left = 0
    /\ mSinceMove = 250

-----------------------------------------------------------------------------
(* C10 *)

\* A failed cycle ends without scheduling anything and without stopping
\* the interval: the timers and the interval are as before, and the cycles
\* in flight are the same ones less the failed one.
FailureLeavesTriggers ==
    \A c \in Slots :
        MapFetchReject(c) =>
            /\ mTimers' = mTimers
            /\ mPoll' = mPoll
            /\ mPoll # <<>>
            /\ {d \in Slots : mCycles'[d].pc = "await"} = MapInFlight \ {c}

\* A cycle that is answered succeeds whatever the earlier cycles left in
\* error: it clears error and stamps lastUpdated.
SuccessWhateverCameBefore ==
    \A c \in Slots, val \in MapBatches :
        MapFetchResolve(c, val) => (mError' = Null /\ mLastUpdated' = <<MapNow>>)

Recovered == mError = Null /\ mLastUpdated # <<>>

\* C10: a failed fetch cycle schedules no retry and does not stop the
\* triggers; the poll timer keeps invoking fetchEvents after a failure,
\* each cycle's outcome is independent of the earlier ones, and if the data
\* source becomes and stays available a later cycle eventually succeeds,
\* resetting error to null and updating lastUpdated.
C10_PollRecoversAfterFailure ==
    /\ [][FailureLeavesTriggers /\ SuccessWhateverCameBefore]_vars
    /\ (mError # Null /\ mFirebase.rtdb) ~> (Recovered \/ ~mSourceUp)

\* A cycle has failed, the data source is available again, and a cycle
\* started after the failure is in flight with the interval still running.
C10_Witness ==
    /\ mError = "Error: Client is offline."
    /\ mSourceUp
    /\ mPoll # <<>>
    /\ MapInFlight # {}
    /\ ENABLED MapPollFire

-----------------------------------------------------------------------------
(* C11 *)

\* C11: isLoading is true in every state in which at least one fetch cycle
\* that passed the initialisation guard is still in flight, and false once
\* no fetch cycle is in flight, for every interleaving of overlapping
\* cycles, whether they end in success or failure.
C11_LoadingIffInFlight ==
    mIsLoading <=> (MapInFlight # {})

\* The part of C11 that the code does keep: with no cycle in flight the
\* flag is false.
C11_IdleMeansNotLoading ==
    (MapInFlight = {}) => ~mIsLoading

-----------------------------------------------------------------------------
(* C6 *)

\* The colour bands as the claim states them.
ClaimBand(count) ==
    IF count <= 3 THEN 1 ELSE IF count <= 10 THEN 2 ELSE IF count <= 30 THEN 3 ELSE 4

ClaimBandColor(b) ==
    CASE b = 1 -> "#22c55e"
      [] b = 2 -> "#eab308"
      [] b = 3 -> "#f97316"
      [] b = 4 -> "#ef4444"

BandOfColor(c) == CHOOSE b \in 1..4 : ClaimBandColor(b) = c

LegendRowsFor(count) ==
    {r \in DOMAIN Legend :
        /\ Legend[r].lo <= count
        /\ (Legend[r].hi = 0 \/ count <= Legend[r].hi)}

\* C6: getHotspotColor puts every count >= 1 into exactly one band with
\* boundaries at 4, 11 and 31 (green, yellow, orange, red); the band is
\* non-decreasing in count and agrees with the legend rows.
C6_ColorBands ==
    /\ \A i \in DOMAIN rLayer :
          LET m == rLayer[i]
          IN  /\ m.fillColor = ClaimBandColor(ClaimBand(m.popup))
              /\ m.color = m.fillColor
              /\ Cardinality(LegendRowsFor(m.popup)) = 1
              /\ \A r \in LegendRowsFor(m.popup) :
                    SwatchColor(Legend[r].swatch) = m.fillColor
    /\ \A i, j \in DOMAIN rLayer :
          rLayer[i].popup <= rLayer[j].popup
              => BandOfColor(rLayer[i].fillColor) <= BandOfColor(rLayer[j].fillColor)

\* A drawn layer with a marker on each side of the boundary at 31.
C6_Witness ==
    \E i, j \in DOMAIN rLayer :
        /\ rLayer[i].popup = 30 /\ rLayer[i].fillColor = "#f97316"
        /\ rLayer[j].popup = 31 /\ rLayer[j].fillColor = "#ef4444"

=============================================================================
